---- MODULE Spec2Model ----
(***************************************************************************)
(* Model of CryptoBalanceBot (src/telegram_crypto_bot.py): address         *)
(* extraction from free text, the concurrent per-chain balance collectors, *)
(* the price fetch, and the folding of the joined results into the summary *)
(* message of one /balance request.                                        *)
(*                                                                         *)
(* Text is a sequence of one-character strings.  Amounts are natural       *)
(* numbers counted in one fixed unit of native token (the division by      *)
(* 10**18 is a change of unit; float rounding is not modelled).            *)
(***************************************************************************)
EXTENDS Integers, Sequences, FiniteSets, TLC

\* ------------------------------------------------------------------------
\* Bounds of the model
\* ------------------------------------------------------------------------

\* Number of chains of the registry that take part (the last NumChains).
NumChains == 2

\* Address ceiling of a request; stands for the 200 of balance_command.
MaxAddresses == 2

\* Addresses per batch of a collector; stands for the 10 of
\* get_balances_for_chain.
batch_size == 2

\* Largest number of chunks concatenated into an input text of the parser.
MaxChunks == 3

\* ------------------------------------------------------------------------
\* Program constants
\* ------------------------------------------------------------------------

\* Hex digits after "0x" in address_pattern.
AddrHexLen == 40

\* Hex digits of a transaction hash (an input of the parser, longer than
\* an address).
HashHexLen == 64

\* ------------------------------------------------------------------------
\* Characters and strings
\* ------------------------------------------------------------------------

LowerHexDigits ==
    {"0", "1", "2", "3", "4", "5", "6", "7", "8", "9",
     "a", "b", "c", "d", "e", "f"}

UpperHexLetters == {"A", "B", "C", "D", "E", "F"}

\* The character class [a-fA-F0-9].
IsHexDigit(ch) == ch \in LowerHexDigits \cup UpperHexLetters

\* str.lower() on one character of a matched address.
LowerChar(ch) ==
    CASE ch = "A" -> "a"
      [] ch = "B" -> "b"
      [] ch = "C" -> "c"
      [] ch = "D" -> "d"
      [] ch = "E" -> "e"
      [] ch = "F" -> "f"
      [] ch = "X" -> "x"
      [] OTHER -> ch

\* str.lower()
Lower(s) == [i \in 1..Len(s) |-> LowerChar(s[i])]

Rep(ch, n) == [i \in 1..n |-> ch]

\* ------------------------------------------------------------------------
\* parse_addresses
\* ------------------------------------------------------------------------

\* address_pattern matches at position p of text: "0x" and AddrHexLen
\* characters of the class [a-fA-F0-9].  Nothing is required of the
\* character that follows.
MatchAt(text, p) ==
    /\ p + 1 + AddrHexLen <= Len(text)
    /\ text[p] = "0"
    /\ text[p + 1] = "x"
    /\ \A i \in 2..(1 + AddrHexLen) : IsHexDigit(text[p + i])

\* Start positions of the matches re.findall reports, scanning from p:
\* leftmost first, the scan resuming after the end of each match.
RECURSIVE MatchPositions(_, _)
MatchPositions(text, p) ==
    LET starts == {q \in p..Len(text) : MatchAt(text, q)}
    IN  IF starts = {}
        THEN << >>
        ELSE LET q == CHOOSE m \in starts : \A o \in starts : m <= o
             IN  <<q>> \o MatchPositions(text, q + 2 + AddrHexLen)

\* re.findall(address_pattern, text)
FindAll(text) ==
    LET pos == MatchPositions(text, 1)
    IN  [j \in 1..Len(pos) |-> SubSeq(text, pos[j], pos[j] + 1 + AddrHexLen)]

\* The loop of parse_addresses with the key of the seen set left as the
\* matched text itself (no case folding).
RECURSIVE DedupExact(_, _, _)
DedupExact(found, j, acc) ==
    IF j > Len(found)
    THEN acc.unique
    ELSE LET addr == found[j]
         IN  IF addr \notin acc.seen
             THEN DedupExact(found, j + 1,
                     [unique |-> Append(acc.unique, addr),
                      seen   |-> acc.seen \cup {addr}])
             ELSE DedupExact(found, j + 1, acc)

\* The loop of parse_addresses: the first occurrence of every address is
\* kept as matched, identity being the lowercase form.
RECURSIVE Dedup(_, _, _)
Dedup(found, j, acc) ==
    IF j > Len(found)
    THEN acc.unique
    ELSE LET addr       == found[j]
             addr_lower == Lower(addr)
         IN  IF addr_lower \notin acc.seen
             THEN Dedup(found, j + 1,
                     [unique |-> Append(acc.unique, addr),
                      seen   |-> acc.seen \cup {addr_lower}])
             ELSE Dedup(found, j + 1, acc)

parse_addresses(text) ==
    Dedup(FindAll(text), 1, [unique |-> << >>, seen |-> {}])

\* The loop of parse_addresses without the seen set: every match is kept.
parse_addresses_keep_all(text) == FindAll(text)

\* ------------------------------------------------------------------------
\* Chain registry
\* ------------------------------------------------------------------------

\* self.rpc_endpoints, in the order of the dict literal.
Registry ==
    <<"ethereum", "base", "ink", "arbitrum", "hyperliquid", "unichain",
      "polygon", "optimism", "bsc">>

\* self.rpc_endpoints.keys() as modelled: the last NumChains chains of the
\* registry, in registry order.
Chains == SubSeq(Registry, Len(Registry) - NumChains + 1, Len(Registry))

ChainSet == {Chains[n] : n \in 1..Len(Chains)}

\* ChainDescriptor.native_symbol of the specification (the source has no
\* such field: it prints every chain's total as ETH).
native_symbol(chain) ==
    CASE chain = "hyperliquid" -> "HYPE"
      [] chain = "polygon"     -> "POL"
      [] chain = "bsc"         -> "BNB"
      [] OTHER                 -> "ETH"

\* ------------------------------------------------------------------------
\* Inputs
\* ------------------------------------------------------------------------

Sep == <<" ">>

\* Digits that fill the addresses of the inputs; the second is upper case.
FillDigits == <<"a", "B", "c", "d", "e", "f", "1", "2">>

AddressOf(ch) == <<"0", "x">> \o Rep(ch, AddrHexLen)

\* A text holding the first k addresses, one per line.
RECURSIVE TextOf(_)
TextOf(k) ==
    IF k = 0 THEN << >>
    ELSE TextOf(k - 1) \o AddressOf(FillDigits[k]) \o <<"\n">>

\* One address written twice, in lower and in upper case.
DupText == AddressOf("a") \o Sep \o AddressOf("A")

\* MaxAddresses distinct addresses and the first of them once more, in
\* upper case: MaxAddresses addresses once duplicates are dropped.
FullDupText == TextOf(MaxAddresses) \o AddressOf("A")

\* Texts of the requests: 0 .. MaxAddresses + 1 distinct addresses, and
\* texts repeating one address.
RequestTexts ==
    {TextOf(k) : k \in 0..(MaxAddresses + 1)} \cup {DupText, FullDupText}

\* Pieces the parser's input texts are made of: addresses in both cases, a
\* candidate one digit short, a 64-digit hash, separators, plain words.
Chunks ==
    { AddressOf("a"), AddressOf("A"), AddressOf("b"),
      <<"0", "x">> \o Rep("a", AddrHexLen - 1),
      <<"0", "x">> \o Rep("c", HashHexLen),
      Sep,
      <<"n", "o">> }

RECURSIVE Concat(_)
Concat(ss) == IF ss = << >> THEN << >> ELSE Head(ss) \o Concat(Tail(ss))

ParserTexts ==
    {Concat(ss) : ss \in UNION {[1..n -> Chunks] : n \in 0..MaxChunks}}

\* Balances an RPC endpoint reports, in units.
WeiValues == {0, 1}

\* Answers of an RPC endpoint to eth_getBalance.  kind "ok" is status 200
\* with a result field; the others are the ways a read fails.  A non-200
\* answer may still carry a body with a result.
BalanceResponses ==
    {[kind |-> "ok", wei |-> w] : w \in WeiValues}
    \cup {[kind |-> "status_not_200", wei |-> 1]}
    \cup {[kind |-> k, wei |-> 0] :
            k \in {"network_error", "timeout", "malformed_body",
                   "missing_result"}}

\* What data['ethereum']['usd'] can hold: a number, or a JSON value that is
\* no number (null, a string).
UsdValues ==
    {[num |-> TRUE, val |-> v] : v \in {0, 2}}
    \cup {[num |-> FALSE, val |-> 0]}

\* Answers of the quote service.
PriceResponses ==
    {[kind |-> "ok", usd |-> u] : u \in UsdValues}
    \cup {[kind |-> k, usd |-> [num |-> TRUE, val |-> 0]] :
            k \in {"network_error", "timeout", "status_not_200",
                   "unexpected_format"}}

\* ------------------------------------------------------------------------
\* get_eth_balance, get_eth_price
\* ------------------------------------------------------------------------

\* get_eth_balance with the status test left out.
get_eth_balance_any_status(resp) ==
    IF resp.kind \in {"ok", "status_not_200"} THEN resp.wei ELSE 0

\* get_eth_balance: the balance of a 200 answer with a result, 0.0 on
\* every other answer and on every exception.
get_eth_balance(resp) ==
    IF resp.kind = "ok" THEN resp.wei ELSE 0

\* get_eth_price: data['ethereum']['usd'] as it is (no type check) of a
\* 200 answer of the expected shape, 0.0 otherwise.
get_eth_price(resp) ==
    IF resp.kind = "ok" THEN resp.usd ELSE [num |-> TRUE, val |-> 0]

\* ------------------------------------------------------------------------
\* State
\* ------------------------------------------------------------------------

VARIABLES
    pc,            \* balance_command: "idle", "gather" (awaiting the gather
                   \* of line 214), "done"
    full_text,     \* the text handed to parse_addresses (parser
                   \* specification; a request's text is an input of its
                   \* action and is not kept)
    addresses,     \* result of parse_addresses(full_text)
    outcome,       \* what the user is answered: "none" while open, then
                   \* "no_addresses", "not_found", "too_many", "summary",
                   \* "error"
    all_pc,        \* the get_all_balances task: "none", "ready", "gather",
                   \* "done"
    coll,          \* per chain, the get_balances_for_chain task
    price_pc,      \* the get_eth_price task: "none", "pending", "done"
    eth_price,     \* value returned by get_eth_price
    all_balances,  \* value returned by get_all_balances
    summary,       \* the parts of result_message
    ok_sum,        \* history: per chain, sum of the balances delivered by
                   \* successful reads to a collector that has not raised
    read_failed,   \* history: some read took a failure path
    issued         \* history: per chain and position of addresses, how
                   \* many get_eth_balance calls were created for it

vars ==
    <<pc, full_text, addresses, outcome, all_pc, coll, price_pc, eth_price,
      all_balances, summary, ok_sum, read_failed, issued>>

EmptyDict == [a \in {} |-> 0]

\* A collector before it is created.
NoCollector == [pc |-> "none", i |-> 0, got |-> EmptyDict, balances |-> EmptyDict]

NoPrice == [num |-> TRUE, val |-> 0]

NoSummary ==
    [chain_totals |-> [c \in ChainSet |-> 0], grand_total |-> 0,
     breakdown |-> << >>, usd_line |-> "none", usd_value |-> 0,
     active_wallets_count |-> 0, total_checks |-> 0, checks_line |-> FALSE]

Init ==
    /\ pc = "idle"
    /\ full_text = << >>
    /\ addresses = << >>
    /\ outcome = "none"
    /\ all_pc = "none"
    /\ coll = [c \in ChainSet |-> NoCollector]
    /\ price_pc = "none"
    /\ eth_price = NoPrice
    /\ all_balances = [c \in ChainSet |-> EmptyDict]
    /\ summary = NoSummary
    /\ ok_sum = [c \in ChainSet |-> 0]
    /\ read_failed = FALSE
    /\ issued = [c \in ChainSet |-> EmptyDict]

\* ------------------------------------------------------------------------
\* balance_command, handle_message: up to the gather
\* ------------------------------------------------------------------------

\* The ceiling test with the ceiling itself refused.
OverLimitInclusive(addrs) == Len(addrs) >= MaxAddresses

\* "len(addresses) > 200"
OverLimit(addrs) == Len(addrs) > MaxAddresses

\* balance_command creating its two tasks before it tests the address list.
DispatchLaunchFirst(addrs) ==
    /\ addresses' = addrs
    /\ all_pc' = "ready"
    /\ price_pc' = "pending"
    /\ IF addrs = << >>
       THEN outcome' = "no_addresses" /\ pc' = "done"
       ELSE IF OverLimit(addrs)
       THEN outcome' = "too_many" /\ pc' = "done"
       ELSE outcome' = "none" /\ pc' = "gather"
    /\ UNCHANGED <<full_text, coll, eth_price, all_balances, summary, ok_sum,
                   read_failed, issued>>

\* balance_command from the parsed addresses on: the two early returns,
\* else the status message and the gather of the balance task and the
\* price task (both created, neither has run yet).
Dispatch(addrs) ==
    /\ addresses' = addrs
    /\ IF addrs = << >>
       THEN /\ outcome' = "no_addresses"
            /\ pc' = "done"
            /\ UNCHANGED <<all_pc, price_pc>>
       ELSE IF OverLimit(addrs)
       THEN /\ outcome' = "too_many"
            /\ pc' = "done"
            /\ UNCHANGED <<all_pc, price_pc>>
       ELSE /\ outcome' = "none"
            /\ pc' = "gather"
            /\ all_pc' = "ready"
            /\ price_pc' = "pending"
    /\ UNCHANGED <<full_text, coll, eth_price, all_balances, summary, ok_sum,
                   read_failed, issued>>

\* /balance <text>
BalanceCommand(text) ==
    /\ pc = "idle"
    /\ Dispatch(parse_addresses(text))

\* A plain message: balance_command when it holds an address, else the
\* "didn't find" reply.
HandleMessage(text) ==
    /\ pc = "idle"
    /\ IF parse_addresses(text) # << >>
       THEN Dispatch(parse_addresses(text))
       ELSE /\ outcome' = "not_found"
            /\ pc' = "done"
            /\ UNCHANGED <<full_text, addresses, all_pc, coll, price_pc, eth_price,
                           all_balances, summary, ok_sum, read_failed, issued>>

\* ------------------------------------------------------------------------
\* get_all_balances, get_balances_for_chain
\* ------------------------------------------------------------------------

\* get_all_balances starts: one collector per chain is created and the
\* task waits in its gather.
GetAllBalances ==
    /\ all_pc = "ready"
    /\ all_pc' = "gather"
    /\ coll' = [c \in ChainSet |-> [NoCollector EXCEPT !.pc = "ready"]]
    /\ UNCHANGED <<pc, full_text, addresses, outcome, price_pc, eth_price,
                   all_balances, summary, ok_sum, read_failed, issued>>

Min(a, b) == IF a < b THEN a ELSE b

\* The batch taken as addresses[i:], every remaining address at once.
BatchOfWhole(i) == (i + 1)..Len(addresses)

\* The batch taken as addresses[:i+batch_size], the earlier batches again.
BatchOfFromStart(i) == 1..Min(i + batch_size, Len(addresses))

\* Positions (1-based) of addresses[i:i+batch_size].
BatchOf(i) == (i + 1)..Min(i + batch_size, Len(addresses))

\* issued after a get_eth_balance call is created for every position of
\* batch.
IssueBatch(counts, batch) ==
    [k \in DOMAIN counts \cup batch |->
        (IF k \in DOMAIN counts THEN counts[k] ELSE 0)
        + (IF k \in batch THEN 1 ELSE 0)]

\* A collector whose task was created runs its first step only after the
\* collectors created before it have ended (the collectors awaited one by
\* one instead of gathered).
CollectorReadyInTurn(c) ==
    /\ coll[c].pc = "ready"
    /\ \A n \in 1..Len(Chains) :
          (\E m \in (n + 1)..Len(Chains) : Chains[m] = c)
             => coll[Chains[n]].pc \in {"done", "failed"}

\* A collector task created by the gather of get_all_balances can run its
\* first step, whatever the other tasks are doing.
CollectorReady(c) == coll[c].pc = "ready"

\* A collector's first step: the first batch's fetches are created and
\* gathered (an empty address list returns at once).
CollectorStart(c) ==
    /\ CollectorReady(c)
    /\ coll' = [coll EXCEPT ![c].pc =
                   IF Len(addresses) = 0 THEN "done" ELSE "gather"]
    /\ issued' = [issued EXCEPT ![c] = IssueBatch(@, BatchOf(0))]
    /\ UNCHANGED <<pc, full_text, addresses, outcome, all_pc, price_pc,
                   eth_price, all_balances, summary, ok_sum, read_failed>>

\* What one read leaves behind: the value get_eth_balance returns for the
\* answer, and for the history whether the read succeeded and what it
\* delivered.
ReadEffect(resp) ==
    [amount    |-> get_eth_balance(resp),
     ok        |-> resp.kind = "ok",
     delivered |-> IF resp.kind = "ok" THEN resp.wei ELSE 0]

\* One get_eth_balance of the batch in flight settles; read is the effect
\* of the endpoint's answer.
FetchSettle(c, k, read) ==
    /\ coll[c].pc = "gather"
    /\ k \in BatchOf(coll[c].i)
    /\ k \notin DOMAIN coll[c].got
    /\ coll' = [coll EXCEPT ![c].got =
                   [j \in DOMAIN @ \cup {k} |->
                       IF j = k THEN read.amount ELSE @[j]]]
    /\ ok_sum' = [ok_sum EXCEPT ![c] = @ + read.delivered]
    /\ read_failed' = (read_failed \/ ~read.ok)
    /\ UNCHANGED <<pc, full_text, addresses, outcome, all_pc, price_pc,
                   eth_price, all_balances, summary, issued>>

\* The results of a batch stored in reverse: the first address of the batch
\* gets the result of the last fetch, and so on.
ZipIntoReversed(balances, batch, got) ==
    LET keys == {addresses[k] : k \in batch}
        lo == CHOOSE k \in batch : \A j \in batch : k <= j
        hi == CHOOSE k \in batch : \A j \in batch : j <= k
        last(a) == CHOOSE k \in batch :
                      /\ addresses[k] = a
                      /\ \A j \in batch : addresses[j] = a => j <= k
    IN  [a \in DOMAIN balances \cup keys |->
            IF a \in keys THEN got[lo + hi - last(a)] ELSE balances[a]]

\* balances after "for addr, balance in zip(batch, batch_balances):
\* balances[addr] = balance" (a later position overwrites an earlier one
\* of the same address).
ZipInto(balances, batch, got) ==
    LET keys == {addresses[k] : k \in batch}
        last(a) == CHOOSE k \in batch :
                      /\ addresses[k] = a
                      /\ \A j \in batch : addresses[j] = a => j <= k
    IN  [a \in DOMAIN balances \cup keys |->
            IF a \in keys THEN got[last(a)] ELSE balances[a]]

\* The gather of a batch returns: the results are stored under their
\* addresses and the collector sleeps.
BatchJoin(c) ==
    /\ coll[c].pc = "gather"
    /\ BatchOf(coll[c].i) \subseteq DOMAIN coll[c].got
    /\ coll' = [coll EXCEPT
                   ![c].balances = ZipInto(@, BatchOf(coll[c].i), coll[c].got),
                   ![c].pc = "sleep"]
    /\ UNCHANGED <<pc, full_text, addresses, outcome, all_pc, price_pc,
                   eth_price, all_balances, summary, ok_sum, read_failed, issued>>

\* The pacing sleep ends: the next batch is created and gathered, or the
\* collector returns balances.
SleepDone(c) ==
    /\ coll[c].pc = "sleep"
    /\ LET next == coll[c].i + batch_size
       IN  /\ coll' = [coll EXCEPT
                       ![c].i = next,
                       ![c].got = EmptyDict,
                       ![c].pc = IF next < Len(addresses)
                                 THEN "gather" ELSE "done"]
           /\ issued' = [issued EXCEPT ![c] = IssueBatch(@, BatchOf(next))]
    /\ UNCHANGED <<pc, full_text, addresses, outcome, all_pc, price_pc,
                   eth_price, all_balances, summary, ok_sum, read_failed>>

\* A collector is about to run a step of its own code (none of its fetches
\* is pending).
CollectorRunnable(c) ==
    \/ coll[c].pc \in {"ready", "sleep"}
    \/ /\ coll[c].pc = "gather"
       /\ BatchOf(coll[c].i) \subseteq DOMAIN coll[c].got

\* The collector task ends with an exception raised in its own code; its
\* locals (balances, the batch results) are gone with its frame.
CollectorRaises(c) ==
    /\ CollectorRunnable(c)
    /\ coll' = [coll EXCEPT ![c] = [NoCollector EXCEPT !.pc = "failed"]]
    /\ ok_sum' = [ok_sum EXCEPT ![c] = 0]
    /\ UNCHANGED <<pc, full_text, addresses, outcome, all_pc, price_pc,
                   eth_price, all_balances, summary, read_failed, issued>>

Range(seq) == {seq[n] : n \in 1..Len(seq)}

\* get_all_balances storing results[i] as it is, exception or not: nothing
\* is recorded for the addresses of a failed collector.
ChainResultAsIs(c) == coll[c].balances

\* all_balances[chain] as get_all_balances sets it: zero for every address
\* when results[i] is an exception, results[i] otherwise.
ChainResult(c) ==
    IF coll[c].pc = "failed"
    THEN [a \in Range(addresses) |-> 0]
    ELSE coll[c].balances

\* asyncio.gather(*tasks, return_exceptions=True) returns: every collector
\* has returned or raised.
AllCollectorsSettled == \A c \in ChainSet : coll[c].pc \in {"done", "failed"}

\* get_all_balances resumes from its gather and returns all_balances.
AllBalancesJoin ==
    /\ all_pc = "gather"
    /\ AllCollectorsSettled
    /\ all_balances' = [c \in ChainSet |-> ChainResult(c)]
    /\ all_pc' = "done"
    /\ UNCHANGED <<pc, full_text, addresses, outcome, coll, price_pc,
                   eth_price, summary, ok_sum, read_failed, issued>>

\* ------------------------------------------------------------------------
\* get_eth_price task
\* ------------------------------------------------------------------------

\* The price task settles; price is what get_eth_price returns for the
\* quote service's answer.
PriceSettle(price) ==
    /\ price_pc = "pending"
    /\ eth_price' = price
    /\ price_pc' = "done"
    /\ UNCHANGED <<pc, full_text, addresses, outcome, all_pc, coll,
                   all_balances, summary, ok_sum, read_failed, issued>>

\* ------------------------------------------------------------------------
\* balance_command: folding the joined results into the summary
\* ------------------------------------------------------------------------

\* sum(d.values())
RECURSIVE SumValues(_)
SumValues(d) ==
    IF DOMAIN d = {} THEN 0
    ELSE LET a == CHOOSE x \in DOMAIN d : TRUE
         IN  d[a] + SumValues([x \in DOMAIN d \ {a} |-> d[x]])

\* chain_totals
ChainTotals(balances) == [c \in ChainSet |-> SumValues(balances[c])]

RECURSIVE SumOver(_, _)
SumOver(totals, n) ==
    IF n = 0 THEN 0 ELSE SumOver(totals, n - 1) + totals[Chains[n]]

\* grand_total with the last chain of the registry left out.
GrandTotalSkipsLast(totals) == SumOver(totals, Len(Chains) - 1)

\* grand_total: every chain's total is added, whatever the chain.
GrandTotal(totals) == SumOver(totals, Len(Chains))

\* A descending sort that puts a chain before the earlier chains of equal
\* total.
RECURSIVE SortedChainsTiesReversed(_, _)
SortedChainsTiesReversed(totals, n) ==
    IF n = 0 THEN << >>
    ELSE LET prev == SortedChainsTiesReversed(totals, n - 1)
             c    == Chains[n]
             keep == Cardinality({j \in 1..Len(prev) : totals[prev[j]] > totals[c]})
         IN  SubSeq(prev, 1, keep) \o <<c>> \o SubSeq(prev, keep + 1, Len(prev))

\* sorted(chain_totals.items(), key=total, reverse=True): descending and
\* stable, so equal totals keep the order of chain_totals (the registry
\* order).
RECURSIVE SortedChains(_, _)
SortedChains(totals, n) ==
    IF n = 0 THEN << >>
    ELSE LET prev == SortedChains(totals, n - 1)
             c    == Chains[n]
             keep == Cardinality({j \in 1..Len(prev) : totals[prev[j]] >= totals[c]})
         IN  SubSeq(prev, 1, keep) \o <<c>> \o SubSeq(prev, keep + 1, Len(prev))

\* The chains that get a line of the breakdown: those with total > 0, in
\* sorted order.
Breakdown(totals) ==
    LET sorted == SortedChains(totals, Len(Chains))
        Test(c) == totals[c] > 0
    IN  SelectSeq(sorted, Test)

\* The USD part with the price test left out: a value whenever the total
\* is positive.
UsdLineNoPriceTest(grand_total, price) ==
    IF grand_total > 0 THEN "value" ELSE "none"

\* The USD part with the price test made before the total test: the notice
\* whenever the price is not positive.
UsdLineFlagFirst(grand_total, price) ==
    IF price.val > 0
    THEN IF grand_total > 0 THEN "value" ELSE "none"
    ELSE "unavailable"

\* The USD part of result_message: "value" for the USD Value line,
\* "unavailable" for the could-not-fetch notice, "none" for neither.
\* Evaluated only where eth_price > 0 does not raise.
UsdLine(grand_total, price) ==
    IF grand_total > 0
    THEN IF price.val > 0 THEN "value" ELSE "unavailable"
    ELSE "none"

\* "eth_price > 0" raises TypeError: it is evaluated (grand_total > 0) on a
\* price that is no number.
PriceTestRaises(grand_total, price) == grand_total > 0 /\ ~price.num

\* active_wallets_count
ActiveWalletsCount(balances) ==
    Cardinality({ca \in ChainSet \X Range(addresses) :
                    /\ ca[2] \in DOMAIN balances[ca[1]]
                    /\ balances[ca[1]][ca[2]] > 0})

\* total_checks
TotalChecks == Len(addresses) * Len(Chains)

\* The gather of balance_command returning once the balance task is done,
\* without the price task.
GatherDoneBalancesOnly == all_pc = "done"

\* asyncio.gather(balance_task, price_task) returns.
GatherDone == all_pc = "done" /\ price_pc = "done"

\* balance_command resumes from its gather: the totals are folded and the
\* summary is sent, or an exception raised on the way is answered by the
\* error message.
GatherJoin ==
    /\ pc = "gather"
    /\ GatherDone
    /\ pc' = "done"
    /\ LET totals == ChainTotals(all_balances)
           grand  == GrandTotal(totals)
           line   == UsdLine(grand, eth_price)
           active == ActiveWalletsCount(all_balances)
       IN  IF PriceTestRaises(grand, eth_price)
           THEN /\ outcome' = "error"
                /\ UNCHANGED summary
           ELSE /\ outcome' = "summary"
                /\ summary' =
                     [chain_totals |-> totals,
                      grand_total |-> grand,
                      breakdown |-> Breakdown(totals),
                      usd_line |-> line,
                      usd_value |-> IF line = "value"
                                    THEN grand * eth_price.val ELSE 0,
                      active_wallets_count |-> active,
                      total_checks |-> IF active > 0 THEN TotalChecks ELSE 0,
                      checks_line |-> active > 0]
    /\ UNCHANGED <<full_text, addresses, all_pc, coll, price_pc, eth_price,
                   all_balances, ok_sum, read_failed, issued>>

\* ------------------------------------------------------------------------
\* Specification of one request
\* ------------------------------------------------------------------------

Next ==
    \/ \E text \in RequestTexts : BalanceCommand(text)
    \/ \E text \in RequestTexts : HandleMessage(text)
    \/ GetAllBalances
    \/ \E c \in ChainSet : CollectorStart(c)
    \/ \E c \in ChainSet, k \in 1..MaxAddresses,
          read \in {ReadEffect(resp) : resp \in BalanceResponses} :
          FetchSettle(c, k, read)
    \/ \E c \in ChainSet : BatchJoin(c)
    \/ \E c \in ChainSet : SleepDone(c)
    \/ \E c \in ChainSet : CollectorRaises(c)
    \/ AllBalancesJoin
    \/ \E price \in {get_eth_price(resp) : resp \in PriceResponses} :
          PriceSettle(price)
    \/ GatherJoin

Spec == Init /\ [][Next]_vars

\* The event loop runs a task that can take a step, and every fetch
\* settles (each has a timeout): some enabled step is always taken.
SpecLive == Spec /\ WF_vars(Next)

\* ------------------------------------------------------------------------
\* Specification of the parser alone
\* ------------------------------------------------------------------------

\* The input text is drawn; nothing is parsed yet.
InitParse ==
    /\ pc = "idle"
    /\ full_text \in ParserTexts
    /\ addresses = << >>
    /\ outcome = "none"
    /\ all_pc = "none"
    /\ coll = [c \in ChainSet |-> NoCollector]
    /\ price_pc = "none"
    /\ eth_price = NoPrice
    /\ all_balances = [c \in ChainSet |-> EmptyDict]
    /\ summary = NoSummary
    /\ ok_sum = [c \in ChainSet |-> 0]
    /\ read_failed = FALSE
    /\ issued = [c \in ChainSet |-> EmptyDict]

\* parse_addresses is applied to the text.
ParseText ==
    /\ pc = "idle"
    /\ addresses' = parse_addresses(full_text)
    /\ pc' = "parsed"
    /\ UNCHANGED <<full_text, outcome, all_pc, coll, price_pc, eth_price,
                   all_balances, summary, ok_sum, read_failed, issued>>

NextParse == ParseText

SpecParse == InitParse /\ [][NextParse]_vars

\* ------------------------------------------------------------------------
\* get_balances_for_chain on its own: one call, for one chain, with a list
\* of up to two full batches and one address more
\* ------------------------------------------------------------------------

CollectorMaxLen == 2 * batch_size + 1

\* A list of n distinct addresses, as parse_addresses returns them.
CollectorAddresses(n) == [k \in 1..n |-> AddressOf(FillDigits[k])]

InitCollector ==
    /\ pc = "call"
    /\ full_text = << >>
    /\ addresses \in {CollectorAddresses(n) : n \in 0..CollectorMaxLen}
    /\ outcome = "none"
    /\ all_pc = "none"
    /\ \E chain \in ChainSet :
          coll = [c \in ChainSet |->
                    IF c = chain THEN [NoCollector EXCEPT !.pc = "ready"]
                    ELSE NoCollector]
    /\ price_pc = "none"
    /\ eth_price = NoPrice
    /\ all_balances = [c \in ChainSet |-> EmptyDict]
    /\ summary = NoSummary
    /\ ok_sum = [c \in ChainSet |-> 0]
    /\ read_failed = FALSE
    /\ issued = [c \in ChainSet |-> EmptyDict]

NextCollector ==
    \/ \E c \in ChainSet : CollectorStart(c)
    \/ \E c \in ChainSet, k \in 1..CollectorMaxLen,
          read \in {ReadEffect(resp) : resp \in BalanceResponses} :
          FetchSettle(c, k, read)
    \/ \E c \in ChainSet : BatchJoin(c)
    \/ \E c \in ChainSet : SleepDone(c)
    \/ \E c \in ChainSet : CollectorRaises(c)

SpecCollector == InitCollector /\ [][NextCollector]_vars

\* ------------------------------------------------------------------------
\* Properties
\* ------------------------------------------------------------------------

Aggregated == outcome \in {"summary", "error"}

ZeroPrice == eth_price.num /\ eth_price.val = 0

ZeroReadings == [a \in Range(addresses) |-> 0]

\* C1: when a chain's collector task fails, the request goes on: the joined
\* result holds a zero balance for every requested address on that chain,
\* every other chain's entry is exactly what its collector returned, and the
\* request still ends in a summary (the price being a number).
C1_ChainFailureIsolated ==
    /\ all_pc = "done" =>
          \A c \in ChainSet :
             /\ coll[c].pc = "failed" => all_balances[c] = ZeroReadings
             /\ coll[c].pc = "done" => all_balances[c] = coll[c].balances
    /\ (pc = "done" /\ Aggregated /\ eth_price.num) => outcome = "summary"

\* A summary of a request in which one collector failed and another one
\* returned a positive balance.
C1_Witness ==
    /\ outcome = "summary"
    /\ \E c, d \in ChainSet :
          /\ coll[c].pc = "failed"
          /\ summary.chain_totals[c] = 0
          /\ coll[d].pc = "done"
          /\ summary.chain_totals[d] > 0

\* C2: the request's result (summary or error message) exists only when
\* every chain collector has returned or failed, the balance task is done
\* and the price task is done.
C2_ResultAfterAllSettled ==
    (Aggregated \/ summary # NoSummary) =>
        /\ price_pc = "done"
        /\ all_pc = "done"
        /\ \A c \in ChainSet : coll[c].pc \in {"done", "failed"}

\* A summary built after one collector returned and one failed.
C2_Witness ==
    /\ outcome = "summary"
    /\ price_pc = "done"
    /\ \E c \in ChainSet : coll[c].pc = "done"
    /\ \E c \in ChainSet : coll[c].pc = "failed"
    /\ read_failed

\* C3: an aggregation never ends in the error outcome.
C3_NeverErrorOutcome == outcome # "error"

RECURSIVE SumOkSums(_)
SumOkSums(n) == IF n = 0 THEN 0 ELSE SumOkSums(n - 1) + ok_sum[Chains[n]]

RECURSIVE CountReadings(_)
CountReadings(n) ==
    IF n = 0 THEN 0
    ELSE CountReadings(n - 1) + Cardinality(DOMAIN all_balances[Chains[n]])

\* C4: the joined result holds exactly one reading per (chain, address)
\* pair, the total-check count of the report is |A| x |C|, and every chain
\* total (and the grand total) is the sum of what the successful reads
\* delivered: a failed read adds exactly 0.
C4_OneReadingPerPair ==
    /\ all_pc = "done" =>
          /\ \A c \in ChainSet : DOMAIN all_balances[c] = Range(addresses)
          /\ CountReadings(Len(Chains)) = Len(addresses) * NumChains
          /\ TotalChecks = CountReadings(Len(Chains))
    /\ outcome = "summary" =>
          /\ summary.checks_line => summary.total_checks = Len(addresses) * NumChains
          /\ \A c \in ChainSet : summary.chain_totals[c] = ok_sum[c]
          /\ summary.grand_total = SumOkSums(Len(Chains))

\* A summary with the checks line, of a request with two addresses in
\* which a read failed.
C4_Witness ==
    /\ outcome = "summary"
    /\ read_failed
    /\ Len(addresses) = 2
    /\ summary.checks_line

\* C5: when the price fetch failed (price zero) and the summed balances are
\* positive, the summary carries the price-unavailable notice; a USD value,
\* when shown, is never 0.
C5_FailedPriceMarkedUnavailable ==
    outcome = "summary" =>
        /\ (ZeroPrice /\ summary.grand_total > 0) => summary.usd_line = "unavailable"
        /\ summary.usd_line = "value" => summary.usd_value > 0

C5_Witness ==
    /\ outcome = "summary"
    /\ ZeroPrice
    /\ summary.grand_total > 0
    /\ summary.usd_line = "unavailable"

\* C6 as claimed: a summary made with a zero price carries the
\* price-unavailable notice whatever the balances are.
C6_Original_ZeroPriceAlwaysFlagged ==
    (outcome = "summary" /\ ZeroPrice) => summary.usd_line = "unavailable"

\* C6 amended: a summary made with a zero price carries the
\* price-unavailable notice exactly when the grand total is positive (with a
\* zero total it carries neither the notice nor a USD value); the USD value
\* is computed exactly when both the grand total and the price are positive,
\* as their product.
C6_ZeroPriceFlaggedWhenTotalPositive ==
    outcome = "summary" =>
        /\ summary.usd_line = "unavailable" <=>
              (summary.grand_total > 0 /\ eth_price.val = 0)
        /\ summary.usd_line = "value" <=>
              (summary.grand_total > 0 /\ eth_price.val > 0)
        /\ summary.usd_value =
              IF summary.grand_total > 0 /\ eth_price.val > 0
              THEN summary.grand_total * eth_price.val ELSE 0

\* A summary made with a zero price and all-zero balances: no notice.
C6_Witness ==
    /\ outcome = "summary"
    /\ ZeroPrice
    /\ summary.grand_total = 0
    /\ summary.usd_line = "none"

RECURSIVE SumOfSymbol(_, _, _)
SumOfSymbol(totals, symbol, n) ==
    IF n = 0 THEN 0
    ELSE SumOfSymbol(totals, symbol, n - 1)
         + (IF native_symbol(Chains[n]) = symbol THEN totals[Chains[n]] ELSE 0)

\* C7: the total that is multiplied by the ETH price is the total of the
\* chains whose native symbol is ETH only.
C7_UsdBaseIsEthChainsOnly ==
    outcome = "summary" =>
        summary.grand_total = SumOfSymbol(summary.chain_totals, "ETH", Len(Chains))

\* Index of the first match equal to a but for case.
FirstMatch(found, a) ==
    CHOOSE j \in 1..Len(found) :
        /\ Lower(found[j]) = Lower(a)
        /\ \A h \in 1..(j - 1) : Lower(found[h]) # Lower(a)

\* C8: the parsed list has no two entries equal but for case, has an entry
\* for every matched address (up to case) and none else, lists them in the
\* order of their first occurrence in the text, and is empty when nothing
\* matches.
C8_DedupKeepsFirstOccurrenceOrder ==
    pc = "parsed" =>
        LET found == FindAll(full_text)
        IN  /\ \A i, j \in 1..Len(addresses) :
                  i # j => Lower(addresses[i]) # Lower(addresses[j])
            /\ {Lower(addresses[i]) : i \in 1..Len(addresses)}
                  = {Lower(found[j]) : j \in 1..Len(found)}
            /\ \A i, j \in 1..Len(addresses) :
                  i < j => FirstMatch(found, addresses[i]) < FirstMatch(found, addresses[j])
            /\ found = << >> => addresses = << >>

\* A text with three matches, two of them one address in two cases.
C8_Witness ==
    /\ pc = "parsed"
    /\ Len(FindAll(full_text)) = 3
    /\ Len(addresses) = 2
    /\ \E i, j \in 1..3 :
          /\ i < j
          /\ FindAll(full_text)[i] # FindAll(full_text)[j]
          /\ Lower(FindAll(full_text)[i]) = Lower(FindAll(full_text)[j])

\* C9: every parsed address equals its own lowercase rendering.
C9_ParsedAddressesLowercase ==
    pc = "parsed" =>
        \A i \in 1..Len(addresses) : addresses[i] = Lower(addresses[i])

\* Number of hex digits of text from position p on.
RECURSIVE HexRunLen(_, _)
HexRunLen(text, p) ==
    IF p > Len(text) \/ ~IsHexDigit(text[p]) THEN 0
    ELSE 1 + HexRunLen(text, p + 1)

\* C10: an address is taken only from a "0x" followed by exactly 40 hex
\* digits: a "0x" followed by a longer run of hex digits gives none.
C10_OnlyExactLengthMatches ==
    pc = "parsed" =>
        \A p \in 1..Len(full_text) :
            (MatchAt(full_text, p) /\ HexRunLen(full_text, p + 2) # AddrHexLen)
                => SubSeq(full_text, p, p + 1 + AddrHexLen)
                      \notin {addresses[i] : i \in 1..Len(addresses)}

\* C11: the ceiling is tested on the parsed (deduplicated) list and is
\* exclusive: a request is refused as over the limit exactly when its list
\* is longer than the ceiling, and a request whose list is as long as the
\* ceiling is aggregated.
C11_CeilingIsExclusive ==
    /\ outcome = "too_many" <=> (pc = "done" /\ Len(addresses) > MaxAddresses)
    /\ (pc # "idle" /\ Len(addresses) = MaxAddresses) =>
          /\ outcome \in {"none", "summary", "error"}
          /\ all_pc # "none"
          /\ price_pc # "none"

\* A summary of a request with as many addresses as the ceiling allows.
C11_Witness ==
    /\ outcome = "summary"
    /\ Len(addresses) = MaxAddresses
    /\ summary.total_checks = MaxAddresses * NumChains

Rejected == outcome \in {"no_addresses", "not_found", "too_many"}

\* C12: the nothing-found outcomes and the over-limit outcome exclude each
\* other (the first with an empty list, the second with a list over the
\* ceiling), and a request that ended in one of them has created no task:
\* no balance task, no collector, no balance fetch, no price task.
C12_RejectedBeforeAnyFetch ==
    /\ outcome \in {"no_addresses", "not_found"} => addresses = << >>
    /\ outcome = "too_many" => OverLimit(addresses)
    /\ Rejected =>
          /\ pc = "done"
          /\ all_pc = "none"
          /\ price_pc = "none"
          /\ eth_price = NoPrice
          /\ \A c \in ChainSet :
                /\ coll[c] = NoCollector
                /\ issued[c] = EmptyDict
                /\ all_balances[c] = EmptyDict

\* A request refused as over the limit, ended, with no task created.
C12_Witness ==
    /\ outcome = "too_many"
    /\ pc = "done"
    /\ all_pc = "none"
    /\ price_pc = "none"

\* A total under the 1e-6 threshold. The amounts of the model are whole
\* units of the smallest positive reading (the code's readings are
\* multiples of 1e-18); one such unit alone is under the threshold.
BelowEpsilon(total) == total <= 1

\* C13: no chain whose total is under the threshold has a line in the
\* breakdown.
C13_DustSuppressed ==
    outcome = "summary" =>
        \A i \in 1..Len(summary.breakdown) :
            ~BelowEpsilon(summary.chain_totals[summary.breakdown[i]])

RECURSIVE SumOfChains(_, _)
SumOfChains(totals, chains) ==
    IF chains = {} THEN 0
    ELSE LET c == CHOOSE x \in chains : TRUE
         IN  totals[c] + SumOfChains(totals, chains \ {c})

Displayed == {summary.breakdown[i] : i \in 1..Len(summary.breakdown)}

\* C14: the grand total is the sum of every chain's total, the chains
\* without a breakdown line included, so the totals of the breakdown lines
\* add up to at most the grand total.
C14_TotalCountsEveryChain ==
    outcome = "summary" =>
        /\ DOMAIN summary.chain_totals = ChainSet
        /\ summary.grand_total = SumOfChains(summary.chain_totals, ChainSet)
        /\ summary.grand_total =
              SumOfChains(summary.chain_totals, Displayed)
              + SumOfChains(summary.chain_totals, ChainSet \ Displayed)
        /\ SumOfChains(summary.chain_totals, Displayed) <= summary.grand_total

\* A summary with a positive total in which the last chain has a positive
\* total and some chain has no breakdown line.
C14_Witness ==
    /\ outcome = "summary"
    /\ summary.chain_totals[Chains[Len(Chains)]] > 0
    /\ Displayed # ChainSet
    /\ Displayed # {}

RegistryIndex(c) == CHOOSE n \in 1..Len(Registry) : Registry[n] = c

\* C15: along the breakdown the totals never grow, and of two chains with
\* the same total the one earlier in the registry comes first.
C15_BreakdownDescendingStable ==
    outcome = "summary" =>
        \A i, j \in 1..Len(summary.breakdown) :
            i < j =>
                LET ti == summary.chain_totals[summary.breakdown[i]]
                    tj == summary.chain_totals[summary.breakdown[j]]
                IN  \/ ti > tj
                    \/ /\ ti = tj
                       /\ RegistryIndex(summary.breakdown[i])
                             < RegistryIndex(summary.breakdown[j])

\* A breakdown with two chains of the same positive total.
C15_Witness ==
    /\ outcome = "summary"
    /\ Len(summary.breakdown) >= 2
    /\ summary.chain_totals[summary.breakdown[1]]
          = summary.chain_totals[summary.breakdown[2]]

\* The fetches of chain c that were created and have not settled.
InFlight(c) ==
    IF coll[c].pc # "gather" THEN {}
    ELSE {k \in DOMAIN issued[c] :
             /\ issued[c][k] > 0
             /\ k \notin DOMAIN coll[c].got
             /\ addresses[k] \notin DOMAIN coll[c].balances}

\* The positions whose result the collector has stored in balances.
Joined(c) == {k \in 1..Len(addresses) : addresses[k] \in DOMAIN coll[c].balances}

C16_BoundedFanOut ==
    \A c \in ChainSet :
        /\ Cardinality(InFlight(c)) <= batch_size
        /\ \E n \in 0..Len(addresses) : DOMAIN issued[c] = 1..n
        /\ coll[c].pc \in {"gather", "sleep"} =>
              /\ coll[c].i % batch_size = 0
              /\ DOMAIN issued[c] = 1..Min(coll[c].i + batch_size, Len(addresses))
              /\ (1..coll[c].i) \subseteq Joined(c)
        /\ InFlight(c) # {} => InFlight(c) \subseteq (coll[c].i + 1)..(coll[c].i + batch_size)

C16_BatchAfterPacing ==
    \A c \in ChainSet :
        issued'[c] # issued[c] =>
            /\ \/ coll[c].pc = "ready" /\ issued[c] = EmptyDict
               \/ /\ coll[c].pc = "sleep"
                  /\ InFlight(c) = {}
                  /\ Joined(c) = DOMAIN issued[c]
            /\ \E n \in 1..batch_size :
                  DOMAIN issued'[c] =
                     DOMAIN issued[c] \cup
                     (Cardinality(DOMAIN issued[c]) + 1)..(Cardinality(DOMAIN issued[c]) + n)

\* C16: a collector's fetches are created batch by batch, each batch the
\* next at most batch_size positions of the list; at most batch_size of its
\* fetches are in flight at any time; and a batch is created only by the
\* step that ends the pacing sleep, when every fetch of the batches before
\* has settled and its result is stored.
C16_BatchesSequentialAndBounded ==
    [](C16_BoundedFanOut) /\ [][C16_BatchAfterPacing]_vars

\* The second batch of a collector with a full batch of fetches in flight.
C16_Witness ==
    \E c \in ChainSet :
        /\ coll[c].pc = "gather"
        /\ coll[c].i = batch_size
        /\ Cardinality(InFlight(c)) = batch_size
        /\ Joined(c) = 1..batch_size

\* What the collector holds of chain c: the results of the batch in flight
\* that are not stored yet, and the stored ones.
Recorded(c) ==
    SumValues(coll[c].balances)
    + (IF coll[c].pc = "gather" THEN SumValues(coll[c].got) ELSE 0)

\* C17: for every chain, no position of the address list (the addresses
\* being distinct) has more than one fetch created for it, a collector that
\* returned has created exactly one for each, and what the collector holds
\* adds up to what the successful reads delivered: a failed read is held as
\* 0 and not created again.
C17_EachPairQueriedOnce ==
    \A c \in ChainSet :
        /\ \A k \in DOMAIN issued[c] : issued[c][k] <= 1
        /\ \A j, k \in 1..Len(addresses) :
              j # k => Lower(addresses[j]) # Lower(addresses[k])
        /\ coll[c].pc = "done" =>
              /\ DOMAIN issued[c] = 1..Len(addresses)
              /\ \A k \in 1..Len(addresses) : issued[c][k] = 1
        /\ coll[c].pc \in {"gather", "sleep", "done"} => Recorded(c) = ok_sum[c]

\* A collector that returned after more than one batch, a read of which
\* failed, and that holds a positive balance.
C17_Witness ==
    \E c \in ChainSet :
        /\ coll[c].pc = "done"
        /\ Len(addresses) > batch_size
        /\ read_failed
        /\ ok_sum[c] > 0

\* C18: the price task and the balance task are created together, and all
\* collectors are created together; from then on every task can take its
\* next step in every reachable state, whatever state the other tasks are
\* in: a created collector can start, a fetch in flight can settle, a full
\* batch can be joined, a sleep can end, the pending price fetch can settle.
C18_TasksRunConcurrently ==
    /\ pc = "gather" => (all_pc # "none" /\ price_pc # "none")
    /\ all_pc \in {"gather", "done"} => \A c \in ChainSet : coll[c].pc # "none"
    /\ all_pc = "ready" => ENABLED GetAllBalances
    /\ price_pc = "pending" => ENABLED PriceSettle(NoPrice)
    /\ \A c \in ChainSet :
          /\ coll[c].pc = "ready" => ENABLED CollectorStart(c)
          /\ \A k \in InFlight(c) :
                ENABLED FetchSettle(c, k, [amount |-> 0, ok |-> FALSE, delivered |-> 0])
          /\ (coll[c].pc = "gather" /\ InFlight(c) = {}) => ENABLED BatchJoin(c)
          /\ coll[c].pc = "sleep" => ENABLED SleepDone(c)

\* Fetches of two chains in flight at the same time while the price fetch
\* is pending; one chain has settled a fetch, the other none.
C18_Witness ==
    /\ price_pc = "pending"
    /\ \E c, d \in ChainSet :
          /\ c # d
          /\ InFlight(c) # {}
          /\ InFlight(d) # {}
          /\ coll[c].got # EmptyDict
          /\ coll[d].got = EmptyDict

C19_ResultsUnderTheirKeys ==
    /\ \A c \in ChainSet :
          coll[c].pc = "sleep" =>
              \A k \in DOMAIN coll[c].got :
                  /\ addresses[k] \in DOMAIN coll[c].balances
                  /\ coll[c].balances[addresses[k]] = coll[c].got[k]
    /\ all_pc = "done" =>
          \A c \in ChainSet :
              coll[c].pc = "done" => all_balances[c] = coll[c].balances
    /\ outcome = "summary" =>
          \A c \in ChainSet :
              /\ summary.chain_totals[c] = SumValues(all_balances[c])
              /\ summary.chain_totals[c] = ok_sum[c]

C19_StoredResultsKept ==
    \A c \in ChainSet :
        (coll[c].pc \in {"gather", "sleep", "done"} /\ coll'[c].pc # "failed") =>
            \A a \in DOMAIN coll[c].balances :
                /\ a \in DOMAIN coll'[c].balances
                /\ coll'[c].balances[a] = coll[c].balances[a]

\* C19: when a batch is joined every result is stored under the address of
\* the fetch that returned it, whatever the order the fetches settled in; a
\* stored result is not changed by a later step; the joined result holds
\* under each chain what that chain's collector returned; and the chain
\* totals of the summary are the sums of what the reads of that chain
\* delivered, which no order of completion changes.
C19_AttributionIndependentOfOrder ==
    [](C19_ResultsUnderTheirKeys) /\ [][C19_StoredResultsKept]_vars

\* A summary of two addresses where, on one chain, the first address holds
\* a balance and the second none, and on another chain the reverse.
C19_Witness ==
    /\ outcome = "summary"
    /\ Len(addresses) = 2
    /\ \E c, d \in ChainSet :
          /\ all_balances[c][addresses[1]] > 0
          /\ all_balances[c][addresses[2]] = 0
          /\ all_balances[d][addresses[1]] = 0
          /\ all_balances[d][addresses[2]] > 0

\* C20: a request that has ended has ended in one of the outcomes "no
\* addresses found", "too many addresses" or a summary, with no task left
\* pending. (That every request ends is C20_RequestEnds.)
C20_EndsInOneOfThreeOutcomes ==
    pc = "done" =>
        /\ outcome \in {"no_addresses", "not_found", "too_many", "summary"}
        /\ all_pc \in {"none", "done"}
        /\ price_pc \in {"none", "done"}
        /\ \A c \in ChainSet : coll[c].pc \in {"none", "done", "failed"}

\* Under SpecLive every request ends.
C20_RequestEnds == <>(pc = "done")

====
